---- MODULE Spec2Model ----
(***************************************************************************)
(* Model of the taxi dispatch engine of src/models.py: the State object    *)
(* (cars, bookings, current_time) and its operations reset, book_car and   *)
(* increment_time, with the pure helpers calc_distance, calc_path,         *)
(* calc_car_path, calc_total_book_time and find_nearest_available_car.     *)
(*                                                                         *)
(* Python lists are 0-based; TLA+ sequences are 1-based.  An index k of    *)
(* the source is kept as k and element k of a list s is s[k + 1].          *)
(***************************************************************************)
EXTENDS Integers, Sequences, FiniteSets, TLC

\* Bounds of the model: requested coordinates range over 0..MaxX, 0..MaxY,
\* increment_time is called while current_time < MaxTime, and book_car creates
\* at most MaxBooks bookings between two resets.  calc_path on its own is
\* applied to points with coordinates in -MaxCoord..MaxCoord.
MaxX == 1
MaxY == 1
MaxTime == 3
MaxBooks == 3
MaxCoord == 1

VARIABLES
    cars,          \* State.cars: list of Car
    bookings,      \* State.bookings: list of Book
    current_time,  \* State.current_time
    lastOp,        \* the operation that ran last: "reset", "book", "tick"
    outcome,       \* how it ended: "ok", "None" (book_car returned None), "IndexError"
    args,          \* <<pickup, destination>> of that call if it created a booking
    made,          \* history: the bookings book_car has created since the last reset
    cleared,       \* history: the active bookings that call discarded, if it was reset
    ahead,         \* history: per car position, the other bookings that were active
                   \* when the car's active booking was created (0 while it has none)
    ticks,         \* history: per car position, the increment_time calls since the
                   \* car's active booking was created (0 while it has none)
    probe          \* a direct call of calc_path: its arguments and, once it has
                   \* returned, its result (NoProbe while the engine runs)

vars == <<cars, bookings, current_time, lastOp, outcome, args, made, cleared, ahead, ticks, probe>>

\* float("inf") of find_nearest_available_car, an element greater than every distance
Infinity == -1

Location(px, py) == [x |-> px, y |-> py]

Coords == {Location(px, py) : px \in 0..MaxX, py \in 0..MaxY}

\* Car(car_id, name): location, is_booked and path_location_index take the defaults
Car(id, nm) ==
    [car_id |-> id, name |-> nm, location |-> Location(0, 0),
     is_booked |-> FALSE, path_location_index |-> -1]

abs(n) == IF n < 0 THEN -n ELSE n

\* Faulty variant of calc_distance: the larger of |dx| and |dy|
DistanceChebyshev(source, destination) ==
    IF abs(source.x - destination.x) >= abs(source.y - destination.y)
    THEN abs(source.x - destination.x)
    ELSE abs(source.y - destination.y)

calc_distance(source, destination) ==
    abs(source.x - destination.x) + abs(source.y - destination.y)

\* Faulty variant of calc_total_book_time: the second leg measured from the car
TotalTimeFromCar(car, pickup, destination) ==
    calc_distance(pickup, car.location) + calc_distance(car.location, destination)

calc_total_book_time(car, pickup, destination) ==
    calc_distance(pickup, car.location) + calc_distance(pickup, destination)

\* Faulty variant of calc_path: the walk along x before the walk along y
PathHorizontalFirst(start, end) ==
    LET dx == abs(end.x - start.x)
        dy == abs(end.y - start.y)
        horizontal == [k \in 1..(dx + 1) |->
                        IF start.x < end.x
                        THEN Location(start.x + (k - 1), start.y)
                        ELSE Location(start.x - (k - 1), start.y)]
        vertical == [i \in 1..dy |->
                        IF start.y < end.y
                        THEN Location(end.x, start.y + i)
                        ELSE Location(end.x, start.y - i)]
    IN  horizontal \o vertical

\* range(dy + 1) then range(1, dx + 1)
calc_path(start, end) ==
    LET dx == abs(end.x - start.x)
        dy == abs(end.y - start.y)
        vertical == [k \in 1..(dy + 1) |->
                        IF start.y < end.y
                        THEN Location(start.x, start.y + (k - 1))
                        ELSE Location(start.x, start.y - (k - 1))]
        horizontal == [i \in 1..dx |->
                        IF start.x < end.x
                        THEN Location(start.x + i, end.y)
                        ELSE Location(start.x - i, end.y)]
    IN  vertical \o horizontal

\* Faulty variant of calc_car_path: the second segment keeps its first element
CarPathNoPop(car_location, pickup, destination) ==
    calc_path(car_location, pickup) \o calc_path(pickup, destination)

calc_car_path(car_location, pickup, destination) ==
    LET path == calc_path(car_location, pickup)
        path_from_pickup_to_destination == calc_path(pickup, destination)
        popped == IF Len(path_from_pickup_to_destination) > 0
                  THEN Tail(path_from_pickup_to_destination)
                  ELSE path_from_pickup_to_destination
    IN  path \o popped

\* Position (1-based) in cs of the first car with the id, 0 for None
get_car(cs, car_id) ==
    IF \E p \in 1..Len(cs) : cs[p].car_id = car_id
    THEN CHOOSE p \in 1..Len(cs) :
            /\ cs[p].car_id = car_id
            /\ \A q \in 1..(p - 1) : cs[q].car_id # car_id
    ELSE 0

\* Faulty variant of LessThan: distance <= nearest_distance
LessOrEqual(distance, nearest_distance) ==
    nearest_distance = Infinity \/ distance <= nearest_distance

\* distance < nearest_distance, with nearest_distance possibly float("inf")
LessThan(distance, nearest_distance) ==
    nearest_distance = Infinity \/ distance < nearest_distance

\* One iteration of the loop of find_nearest_available_car on the car at
\* position p; acc is [car: position of nearest_car or 0, dist: nearest_distance]
NearestStep(cs, pickup, p, acc) ==
    IF cs[p].is_booked THEN acc
    ELSE LET distance == calc_distance(pickup, cs[p].location)
             a1 == IF LessThan(distance, acc.dist)
                   THEN [car |-> p, dist |-> distance]
                   ELSE acc
         IN  IF distance = a1.dist
             THEN IF cs[p].car_id < cs[a1.car].car_id
                  THEN [car |-> p, dist |-> distance]
                  ELSE [car |-> a1.car, dist |-> distance]
             ELSE a1

RECURSIVE NearestLoop(_, _, _, _)
NearestLoop(cs, pickup, p, acc) ==
    IF p > Len(cs) THEN acc
    ELSE NearestLoop(cs, pickup, p + 1, NearestStep(cs, pickup, p, acc))

\* Faulty variant of find_nearest_available_car: the loop starts at the second car
NearestFromSecond(cs, pickup) ==
    NearestLoop(cs, pickup, 2, [car |-> 0, dist |-> Infinity]).car

\* Position of the nearest unbooked car, 0 for None
find_nearest_available_car(cs, pickup) ==
    NearestLoop(cs, pickup, 1, [car |-> 0, dist |-> Infinity]).car

\* Book(car_id, source, destination, total_time, path)
Book(id, src, dst, tt, p) ==
    [car_id |-> id, source |-> src, destination |-> dst, path |-> p, total_time |-> tt]

\* Faulty variant of append: list.insert(0, e)
Prepend(s, e) == <<e>> \o s

\* list.append(e)
append(s, e) == Append(s, e)

\* Faulty variant of Pop: pop(0), the head of the list whatever the position
PopHead(s, index) == Tail(s)

\* Faulty variant of Pop: pop() without the index, the last element
PopLast(s, index) == SubSeq(s, 1, Len(s) - 1)

\* list.pop(index)
Pop(s, index) == SubSeq(s, 1, index) \o SubSeq(s, index + 2, Len(s))

\* list[k] raises IndexError outside -len..len-1; a negative k counts from the end
InRange(s, k) == -Len(s) <= k /\ k < Len(s)
GetItem(s, k) == IF k >= 0 THEN s[k + 1] ELSE s[Len(s) + k + 1]

\* Faulty variant of arrive: the car is replaced by a new Car at the same place
ArriveAsNewCar(cs, c) ==
    [cs EXCEPT ![c] = [Car(cs[c].car_id, "") EXCEPT !.location = cs[c].location]]

\* The car at position c has arrived: unbooked, index back to the sentinel
arrive(cs, c) ==
    [cs EXCEPT ![c].is_booked = FALSE, ![c].path_location_index = -1]

\* The loop of increment_time from iterator position index on: the list
\* iterator re-reads len(self.bookings) before each element, so a pop moves
\* the following booking into the position the iterator has already left.
RECURSIVE TickLoop(_, _, _)
TickLoop(cs, bs, index) ==
    IF index >= Len(bs) THEN [cars |-> cs, bookings |-> bs, outcome |-> "ok"]
    ELSE LET book == bs[index + 1]
             c == get_car(cs, book.car_id)
         IN  IF c = 0 THEN TickLoop(cs, bs, index + 1)
             ELSE LET k == cs[c].path_location_index + 1
                      moved == [cs EXCEPT ![c].path_location_index = k]
                  IN  IF ~InRange(book.path, k)
                      THEN [cars |-> moved, bookings |-> bs, outcome |-> "IndexError"]
                      ELSE LET at == [moved EXCEPT ![c].location = GetItem(book.path, k)]
                           IN  IF k = Len(book.path) - 1
                               THEN TickLoop(arrive(at, c), Pop(bs, index), index + 1)
                               ELSE TickLoop(at, bs, index + 1)

\* Faulty variant of Tick: the counter is incremented after the loop, which an
\* IndexError does not reach
TickTimeAfterLoop(cs, bs, t) ==
    LET r == TickLoop(cs, bs, 0)
    IN  [cars |-> r.cars, bookings |-> r.bookings, outcome |-> r.outcome,
         current_time |-> IF r.outcome = "ok" THEN t + 1 ELSE t]

\* increment_time on cars cs, bookings bs and current_time t: the counter first,
\* then the loop
Tick(cs, bs, t) ==
    LET r == TickLoop(cs, bs, 0)
    IN  [cars |-> r.cars, bookings |-> r.bookings, outcome |-> r.outcome,
         current_time |-> t + 1]

Fleet ==
    << Car(1, "Toyota Prius"), Car(2, "Honda Civic"), Car(3, "Ford Mustang") >>

NoTicks == [p \in 1..Len(Fleet) |-> 0]

NoProbe == << >>

\* The state after the startup event: State() followed by reset()
Init ==
    /\ cars = Fleet
    /\ bookings = << >>
    /\ current_time = 0
    /\ lastOp = "reset"
    /\ outcome = "ok"
    /\ args = << >>
    /\ made = 0
    /\ cleared = 0
    /\ ahead = NoTicks
    /\ ticks = NoTicks
    /\ probe = NoProbe

\* Faulty variant of reset: the bookings and the time are cleared, the cars are kept
ResetKeepsCars ==
    /\ cars' = cars
    /\ bookings' = << >>
    /\ current_time' = 0
    /\ lastOp' = "reset"
    /\ outcome' = "ok"
    /\ args' = << >>
    /\ made' = 0
    /\ cleared' = Len(bookings)
    /\ ahead' = NoTicks
    /\ ticks' = NoTicks
    /\ probe' = probe

reset ==
    /\ cars' = Fleet
    /\ bookings' = << >>
    /\ current_time' = 0
    /\ lastOp' = "reset"
    /\ outcome' = "ok"
    /\ args' = << >>
    /\ made' = 0
    /\ cleared' = Len(bookings)
    /\ ahead' = NoTicks
    /\ ticks' = NoTicks
    /\ probe' = probe

book_car ==
    \E pickup \in Coords, destination \in Coords :
        LET nearest_car == find_nearest_available_car(cars, pickup)
            booked == [cars EXCEPT ![nearest_car].is_booked = TRUE,
                                   ![nearest_car].path_location_index = 0]
            book == Book(booked[nearest_car].car_id, pickup, destination,
                         calc_total_book_time(booked[nearest_car], pickup, destination),
                         calc_car_path(booked[nearest_car].location, pickup, destination))
        IN  /\ lastOp' = "book"
            /\ current_time' = current_time
            /\ probe' = probe
            /\ cleared' = 0
            /\ IF nearest_car = 0
               THEN /\ outcome' = "None"
                    /\ args' = << >>
                    /\ UNCHANGED <<cars, bookings, made, ahead, ticks>>
               ELSE /\ made < MaxBooks
                    /\ cars' = booked
                    /\ bookings' = append(bookings, book)
                    /\ outcome' = "ok"
                    /\ args' = <<pickup, destination>>
                    /\ made' = made + 1
                    /\ ahead' = [ahead EXCEPT ![nearest_car] = Len(bookings)]
                    /\ ticks' = [ticks EXCEPT ![nearest_car] = 0]

increment_time ==
    /\ current_time < MaxTime
    /\ LET r == Tick(cars, bookings, current_time)
       IN  /\ current_time' = r.current_time
           /\ cars' = r.cars
           /\ bookings' = r.bookings
           /\ outcome' = r.outcome
    /\ lastOp' = "tick"
    /\ args' = << >>
    /\ made' = made
    /\ cleared' = 0
    /\ ahead' = [p \in DOMAIN ahead |-> IF cars'[p].is_booked THEN ahead[p] ELSE 0]
    /\ ticks' = [p \in DOMAIN ticks |-> IF cars'[p].is_booked THEN ticks[p] + 1 ELSE 0]
    /\ probe' = probe

Next == reset \/ book_car \/ increment_time

Spec == Init /\ [][Next]_vars

\* Two bookings are requested, then increment_time is called again and again,
\* and reset is not called
book_first == current_time = 0 /\ Len(bookings) < 2 /\ book_car

LiveNext == book_first \/ increment_time

LiveSpec == Init /\ [][LiveNext]_vars /\ WF_vars(increment_time)

(***************************************************************************)
(* calc_path as a function of its own: a call with arguments drawn from    *)
(* PathCoords, and its return.                                             *)
(***************************************************************************)

PathCoords == {Location(px, py) : px \in -MaxCoord..MaxCoord, py \in -MaxCoord..MaxCoord}

PathInit ==
    /\ cars = Fleet
    /\ bookings = << >>
    /\ current_time = 0
    /\ lastOp = "reset"
    /\ outcome = "ok"
    /\ args = << >>
    /\ made = 0
    /\ cleared = 0
    /\ ahead = NoTicks
    /\ ticks = NoTicks
    /\ probe \in {[start |-> s, end |-> e, returned |-> FALSE, path |-> << >>] :
                     s \in PathCoords, e \in PathCoords}

calc_path_call ==
    /\ ~probe.returned
    /\ probe' = [probe EXCEPT !.returned = TRUE, !.path = calc_path(probe.start, probe.end)]
    /\ UNCHANGED <<cars, bookings, current_time, lastOp, outcome, args, made, cleared, ahead, ticks>>

PathNext == calc_path_call

PathSpec == PathInit /\ [][PathNext]_vars

(***************************************************************************)
(* Vocabulary of the properties                                            *)
(***************************************************************************)

CarPos == 1..Len(cars)

\* Positions in the active list of the bookings that reference the car at p
BookingsOf(p) == {i \in 1..Len(bookings) : bookings[i].car_id = cars[p].car_id}

\* Position of the car a booking references
OwnerOf(b) == CHOOSE p \in CarPos : cars[p].car_id = b.car_id

\* N of a booking: the number of moves along its path
Moves(b) == Len(b.path) - 1

IsActiveAfter(b) == \E i \in 1..Len(bookings') : bookings'[i] = b

(***************************************************************************)
(* C1. A booking with N = len(path) - 1 is, after N increment_time calls,  *)
(* gone from the active list with its car unbooked at the destination;     *)
(* after N - 1 calls it is still active with its car at path[N - 1].       *)
(* Stated as: an active booking has seen fewer than N calls, its car is at *)
(* path[N - 1] when it has seen N - 1, and the call that follows removes   *)
(* it, unbooks the car and leaves the car at the destination.  Bookings    *)
(* with N = 0 are left out: no call follows which the claim could be read  *)
(* against.                                                                *)
(***************************************************************************)
C1_CompletesAfterNTicks ==
    /\ [](\A i \in 1..Len(bookings) :
            LET b == bookings[i]
                p == OwnerOf(b)
            IN  Moves(b) >= 1
                    => /\ ticks[p] < Moves(b)
                       /\ ticks[p] = Moves(b) - 1 => cars[p].location = b.path[Moves(b)])
    /\ [][\A i \in 1..Len(bookings) :
            LET b == bookings[i]
                p == OwnerOf(b)
            IN  (lastOp' = "tick" /\ Moves(b) >= 1 /\ ticks[p] = Moves(b) - 1)
                    => /\ ~IsActiveAfter(b)
                       /\ ~cars'[p].is_booked
                       /\ cars'[p].location = b.destination]_vars

(***************************************************************************)
(* C2. In an increment_time call that completes, every booking active at   *)
(* the start of the call has its car's index advanced by exactly 1 (the    *)
(* index is then replaced by the sentinel when it reached the end of the   *)
(* path) and its car's location set to the path element at the new index,  *)
(* also when an earlier booking is removed during the call.                *)
(***************************************************************************)
C2_EveryBookingEvaluated ==
    [][(lastOp' = "tick" /\ outcome' = "ok")
        => \A i \in 1..Len(bookings) :
            LET b == bookings[i]
                p == OwnerOf(b)
                k == cars[p].path_location_index + 1
            IN  /\ k <= Moves(b)
                /\ cars'[p].location = b.path[k + 1]
                /\ IF k = Moves(b)
                   THEN cars'[p].path_location_index = -1
                   ELSE cars'[p].path_location_index = k]_vars

(***************************************************************************)
(* C3. A car is booked iff exactly one active booking references its id:   *)
(* a booked car has one booking, an unbooked car has none.                 *)
(***************************************************************************)
C3_BookedIffOneBooking ==
    \A p \in CarPos :
        /\ cars[p].is_booked <=> Cardinality(BookingsOf(p)) = 1
        /\ Cardinality(BookingsOf(p)) <= 1

\* A completed booking has been removed while a booking created after it and
\* one created before it are still active
C3_Witness ==
    /\ lastOp = "tick"
    /\ Len(bookings) = 2
    /\ cars[1].is_booked /\ ~cars[2].is_booked /\ cars[3].is_booked
    /\ cars[2].location # Location(0, 0)

(***************************************************************************)
(* C4. Each car's path_location_index is the sentinel -1 or a valid index  *)
(* into the path of the booking that references the car.                   *)
(***************************************************************************)
C4_IndexWithinPath ==
    \A p \in CarPos :
        \/ cars[p].path_location_index = -1
        \/ \E i \in BookingsOf(p) :
                /\ 0 <= cars[p].path_location_index
                /\ cars[p].path_location_index < Len(bookings[i].path)

(***************************************************************************)
(* C5. increment_time has no error outcome: every call completes and each  *)
(* path[index] it reads is within the path.                                *)
(***************************************************************************)
C5_TickNeverFails ==
    lastOp = "tick" => outcome = "ok"

(***************************************************************************)
(* Vocabulary of the book_car properties: a step that ends with            *)
(* lastOp' = "book" is a book_car call, Booked says that it created a      *)
(* booking, NewBook is that booking and Chosen the car it references.      *)
(***************************************************************************)

Booked == lastOp' = "book" /\ outcome' = "ok"

NewBook == bookings'[Len(bookings')]

Chosen == CHOOSE p \in CarPos : cars[p].car_id = NewBook.car_id

Gap(m, n) == IF m >= n THEN m - n ELSE n - m

\* |dx| + |dy|
Manhattan(a, b) == Gap(a.x, b.x) + Gap(a.y, b.y)

\* The same in a state: the booking created by the call that ran last
LastBook == bookings[Len(bookings)]

JustBooked == lastOp = "book" /\ outcome = "ok" /\ Len(bookings) >= 1

(***************************************************************************)
(* C6. The car book_car chooses is unbooked, no unbooked car is nearer to  *)
(* the pickup in Manhattan distance, and no unbooked car at the same       *)
(* distance has a smaller id; a booked car is never chosen.                *)
(***************************************************************************)
C6_NearestAvailableSmallestId ==
    [][Booked =>
        /\ ~cars[Chosen].is_booked
        /\ \A q \in CarPos :
              ~cars[q].is_booked =>
                /\ Manhattan(args'[1], cars[Chosen].location)
                      <= Manhattan(args'[1], cars[q].location)
                /\ Manhattan(args'[1], cars[Chosen].location)
                      = Manhattan(args'[1], cars[q].location)
                   => cars[Chosen].car_id <= cars[q].car_id]_vars

\* Car 3 was chosen over the unbooked car 2, which is farther from the pickup,
\* and over the booked car 1, which is nearer than car 3
C6_Witness ==
    /\ JustBooked
    /\ LastBook.car_id = 3
    /\ cars[1].is_booked /\ ~cars[2].is_booked
    /\ Manhattan(args[1], cars[1].location) < Manhattan(args[1], cars[3].location)
    /\ Manhattan(args[1], cars[3].location) < Manhattan(args[1], cars[2].location)
    /\ cars[3].path_location_index = 0

(***************************************************************************)
(* C7. book_car returns None iff every car is booked at the call, and then *)
(* cars, bookings and current_time are unchanged.                          *)
(***************************************************************************)
C7_NoneIffAllBooked ==
    [][lastOp' = "book" =>
        /\ outcome' = "None" <=> \A p \in CarPos : cars[p].is_booked
        /\ outcome' = "None" =>
              /\ cars' = cars
              /\ bookings' = bookings
              /\ current_time' = current_time]_vars

\* book_car has returned None with the three cars booked
C7_Witness ==
    /\ lastOp = "book"
    /\ outcome = "None"
    /\ \A p \in CarPos : cars[p].is_booked
    /\ Len(bookings) = 3

(***************************************************************************)
(* C8. A successful book_car marks the chosen car booked with index 0 and  *)
(* leaves its other fields alone, appends one booking with that car's id,  *)
(* the pickup as source and the destination at the end of the list, and    *)
(* leaves the other cars, the existing bookings and their positions, and   *)
(* current_time unchanged.                                                 *)
(***************************************************************************)
C8_BookFrame ==
    [][Booked =>
        /\ Len(bookings') = Len(bookings) + 1
        /\ SubSeq(bookings', 1, Len(bookings)) = bookings
        /\ NewBook.source = args'[1]
        /\ NewBook.destination = args'[2]
        /\ Cardinality({p \in CarPos : cars[p].car_id = NewBook.car_id}) = 1
        /\ Len(cars') = Len(cars)
        /\ cars'[Chosen] = [cars[Chosen] EXCEPT !.is_booked = TRUE,
                                                !.path_location_index = 0]
        /\ \A q \in CarPos \ {Chosen} : cars'[q] = cars[q]
        /\ current_time' = current_time]_vars

\* A third booking was appended behind two active ones after time has advanced
\* and a car has moved
C8_Witness ==
    /\ JustBooked
    /\ Len(bookings) = 3
    /\ current_time > 0
    /\ \E p \in CarPos : cars[p].path_location_index > 0

(***************************************************************************)
(* C9. The total_time of a booking book_car creates is the Manhattan       *)
(* distance from the pickup to the chosen car's location before the        *)
(* booking plus the Manhattan distance from the pickup to the destination. *)
(***************************************************************************)
C9_TotalTime ==
    [][Booked =>
        NewBook.total_time = Manhattan(args'[1], cars[Chosen].location)
                             + Manhattan(args'[1], args'[2])]_vars

\* A booking whose car, pickup and destination are three different places
C9_Witness ==
    /\ JustBooked
    /\ LastBook.path[1] # args[1]
    /\ args[1] # args[2]
    /\ LastBook.path[1] # args[2]
    /\ LastBook.total_time = 3

(***************************************************************************)
(* C10. The path of a booking book_car creates is calc_path(car location,  *)
(* pickup) followed by calc_path(pickup, destination) without its first    *)
(* element: it starts at the car's location before the booking, has the    *)
(* pickup at index calc_distance(car location, pickup) and not again at    *)
(* the next index, ends at the destination, and consecutive points are one *)
(* grid step apart.                                                        *)
(***************************************************************************)
C10_PathShape ==
    [][Booked =>
        LET path == NewBook.path
            at == cars[Chosen].location
            d == Manhattan(at, args'[1])
        IN  /\ path = calc_path(at, args'[1]) \o Tail(calc_path(args'[1], args'[2]))
            /\ Len(path) = d + Manhattan(args'[1], args'[2]) + 1
            /\ path[1] = at
            /\ path[d + 1] = args'[1]
            /\ d + 2 <= Len(path) => path[d + 2] # args'[1]
            /\ path[Len(path)] = args'[2]
            /\ \A i \in 1..(Len(path) - 1) : Manhattan(path[i], path[i + 1]) = 1]_vars

\* A path with both segments non-trivial that moves along both axes
C10_Witness ==
    /\ JustBooked
    /\ LastBook.path[1] # args[1]
    /\ args[1] # args[2]
    /\ Len(LastBook.path) >= 4
    /\ \E i, j \in 1..Len(LastBook.path) :
          /\ LastBook.path[i].x # LastBook.path[j].x
          /\ LastBook.path[i].y # LastBook.path[j].y

(***************************************************************************)
(* C11. calc_path(start, end) is the vertical-then-horizontal staircase:   *)
(* |dy| + 1 points at x = start.x stepping from start.y to end.y, then     *)
(* |dx| points at y = end.y stepping to end.x.  It has |dx| + |dy| + 1     *)
(* points, begins with start, ends with end, each consecutive pair differs *)
(* by one unit in exactly one axis, and it is <<start>> when start = end.  *)
(***************************************************************************)
Sign(n) == IF n > 0 THEN 1 ELSE IF n < 0 THEN -1 ELSE 0

C11_Staircase ==
    (probe # NoProbe /\ probe.returned) =>
        LET start == probe.start
            end == probe.end
            path == probe.path
            ady == Gap(start.y, end.y)
            adx == Gap(start.x, end.x)
        IN  /\ Len(path) = adx + ady + 1
            /\ \A k \in 1..Len(path) :
                  IF k <= ady + 1
                  THEN /\ path[k].x = start.x
                       /\ path[k].y = start.y + Sign(end.y - start.y) * (k - 1)
                  ELSE /\ path[k].y = end.y
                       /\ path[k].x = start.x + Sign(end.x - start.x) * (k - ady - 1)
            /\ path[1] = start
            /\ path[Len(path)] = end
            /\ \A k \in 1..(Len(path) - 1) :
                  \/ path[k].x = path[k + 1].x /\ Gap(path[k].y, path[k + 1].y) = 1
                  \/ path[k].y = path[k + 1].y /\ Gap(path[k].x, path[k + 1].x) = 1
            /\ start = end => path = <<start>>

\* calc_path has returned a path that descends along y and then along x
C11_Witness ==
    /\ probe # NoProbe
    /\ probe.returned
    /\ probe.start.y > probe.end.y
    /\ probe.start.x > probe.end.x
    /\ Len(probe.path) = 5

(***************************************************************************)
(* C12. Every increment_time call increases current_time by exactly 1,     *)
(* whatever the number of active bookings.                                 *)
(***************************************************************************)
C12_TimeAdvancesByOne ==
    [][lastOp' = "tick" => current_time' = current_time + 1]_vars

\* increment_time has run with three active bookings, after it had run with none
C12_Witness ==
    /\ lastOp = "tick"
    /\ current_time >= 2
    /\ made = 3
    /\ \A p \in CarPos : cars[p].is_booked /\ ticks[p] = 1

(***************************************************************************)
(* C13. After reset there are exactly three cars with ids 1, 2, 3 in that  *)
(* order, all unbooked at (0,0) with index -1, no bookings and             *)
(* current_time 0, whatever the state reset was called in; a second reset  *)
(* right after leaves that state as it is.                                 *)
(***************************************************************************)
C13_ResetState ==
    /\ [](lastOp = "reset" =>
            /\ Len(cars) = 3
            /\ \A p \in 1..3 :
                  /\ cars[p].car_id = p
                  /\ ~cars[p].is_booked
                  /\ cars[p].location = [x |-> 0, y |-> 0]
                  /\ cars[p].path_location_index = -1
            /\ Len(bookings) = 0
            /\ current_time = 0)
    /\ [][(lastOp = "reset" /\ lastOp' = "reset") =>
            /\ cars' = cars
            /\ bookings' = bookings
            /\ current_time' = current_time]_vars

\* reset has discarded three active bookings
C13_Witness ==
    /\ lastOp = "reset"
    /\ cleared = 3

(***************************************************************************)
(* C14. The fleet is fixed: in every state the car ids are 1, 2, 3 in that *)
(* order with the names reset gave them; book_car and increment_time       *)
(* never add, remove, reorder or rename a car.                             *)
(***************************************************************************)
C14_FleetFixed ==
    /\ [i \in 1..Len(cars) |-> cars[i].car_id] = <<1, 2, 3>>
    /\ [i \in 1..Len(cars) |-> cars[i].name]
         = <<"Toyota Prius", "Honda Civic", "Ford Mustang">>

\* Each car has been booked and has driven to another place since the reset
C14_Witness ==
    /\ made = 3
    /\ lastOp = "tick"
    /\ \A p \in CarPos : ~cars[p].is_booked /\ cars[p].location # [x |-> 0, y |-> 0]

(***************************************************************************)
(* C15. While increment_time is called repeatedly and reset is not, every  *)
(* active booking is eventually removed and no car stays booked forever.   *)
(* The calls are counted up to MaxTime, so the property is stated for the  *)
(* bookings that have the calls they need left: a new booking at list      *)
(* position i needs len(path) - 1 calls and at most one more for each of   *)
(* the i - 1 bookings before it.                                           *)
(***************************************************************************)
EnoughCallsLeft(p) ==
    /\ cars[p].is_booked
    /\ ticks[p] = 0
    /\ \E i \in BookingsOf(p) :
          current_time + Moves(bookings[i]) + (i - 1) <= MaxTime

C15_NoCarBookedForever ==
    \A p \in 1..3 : EnoughCallsLeft(p) ~> ~cars[p].is_booked

(***************************************************************************)
(* C16. The total_time of a booking is len(path) - 1, the number of moves  *)
(* of its car along the path.                                              *)
(***************************************************************************)
C16_TotalTimeIsMoves ==
    \A i \in 1..Len(bookings) : bookings[i].total_time = Len(bookings[i].path) - 1

\* A booking whose car makes four moves, two to the pickup and two from there
C16_Witness ==
    \E i \in 1..Len(bookings) :
        /\ bookings[i].total_time = 4
        /\ bookings[i].path[3] = bookings[i].source
        /\ bookings[i].path[1] = bookings[i].destination

(***************************************************************************)
(* C17. Every booked car has an index i >= 0 and is at path[i] of its      *)
(* booking; every unbooked car has the index -1.                           *)
(***************************************************************************)
C17_BookedCarOnItsPath ==
    \A p \in CarPos :
        IF cars[p].is_booked
        THEN /\ cars[p].path_location_index >= 0
             /\ \E i \in BookingsOf(p) :
                   /\ cars[p].path_location_index < Len(bookings[i].path)
                   /\ cars[p].location = bookings[i].path[cars[p].path_location_index + 1]
        ELSE cars[p].path_location_index = -1

(***************************************************************************)
(* C18. increment_time leaves every unbooked car as it is, changes no      *)
(* field of any booking, removes only bookings whose car has reached the   *)
(* last element of the path in that call, and keeps the remaining bookings *)
(* in their order.                                                         *)
(***************************************************************************)
C18_TickFrame ==
    [][lastOp' = "tick" =>
        /\ \A p \in CarPos : ~cars[p].is_booked => cars'[p] = cars[p]
        /\ \A j \in 1..Len(bookings') : \E i \in 1..Len(bookings) : bookings[i] = bookings'[j]
        /\ bookings' = SelectSeq(bookings, IsActiveAfter)
        /\ \A i \in 1..Len(bookings) :
              ~IsActiveAfter(bookings[i]) =>
                LET b == bookings[i]
                    p == OwnerOf(b)
                IN  /\ cars[p].path_location_index + 1 = Len(b.path) - 1
                    /\ cars'[p].location = b.path[Len(b.path)]
                    /\ ~cars'[p].is_booked]_vars

\* The first increment_time after a reset has removed one of two bookings and
\* kept the other, with the third car not booked
C18_Witness ==
    /\ lastOp = "tick"
    /\ current_time = 1
    /\ made = 2
    /\ Len(bookings) = 1
    /\ Cardinality({p \in CarPos : ~cars[p].is_booked}) = 2

(***************************************************************************)
(* C19. A booking created when k other bookings are active is removed      *)
(* after T increment_time calls with len(path) - 1 <= T <= len(path) - 1   *)
(* + k.  Stated as: an active booking has seen fewer than len(path) - 1    *)
(* + k calls, and the call that removes a booking is at least its          *)
(* (len(path) - 1)-th.  Bookings with len(path) = 1 are left out, as in    *)
(* C1.                                                                     *)
(***************************************************************************)
C19_CompletionWindow ==
    /\ [](\A i \in 1..Len(bookings) :
            LET b == bookings[i]
                p == OwnerOf(b)
            IN  Moves(b) >= 1 => ticks[p] < Moves(b) + ahead[p])
    /\ [][lastOp' = "tick" =>
            \A i \in 1..Len(bookings) :
                LET b == bookings[i]
                    p == OwnerOf(b)
                IN  (Moves(b) >= 1 /\ ~IsActiveAfter(b)) => ticks[p] + 1 >= Moves(b)]_vars

====
